---- MODULE Spec2Model ----
(***************************************************************************)
(* Model of the grahin RAG backend: the chunker (FileProcessor.chunk_text), *)
(* the file endpoints (app/api/files.py), the per-user vector index service *)
(* (RAGService) and the chat endpoint (app/api/chat.py).                    *)
(*                                                                          *)
(* Texts are sequences of one-character strings.  SpecChunk runs            *)
(* chunk_text, one loop iteration per step, on every bounded input; Spec    *)
(* runs the file endpoints and the index service; SpecChat runs the chat    *)
(* endpoint.                                                                *)
(***************************************************************************)
EXTENDS Integers, Sequences, FiniteSets, TLC

VARIABLES
    \* ---- one call of chunk_text ----
    text,         \* the text argument
    chunk_size,   \* the chunk_size argument
    overlap,      \* the overlap argument
    start,        \* the cursor `start`
    chunks,       \* the list `chunks` (the returned list once pc = "done")
    cuts,         \* history: the <<start, end>> slice bounds of each append
    pc,           \* "idle" | "call" | "loop" | "done" | "raise" | "exhausted"
    \* ---- the service ----
    files,        \* table files: file id -> File row
    rows,         \* table document_chunks: the set of DocumentChunk rows
    disk,         \* upload_dir: file id -> the stored upload
    store,        \* the Chroma directory: collection name -> the set of its vectors
    inflight,     \* upload_file requests between the first commit and the processing
    nextFileId,   \* files created so far + 1 (ids stand for the uuid4 keys)
    deleted,      \* history: file id -> the user delete_file deleted it for
    uploader,     \* history: file id -> the current_user of the upload_file call
    returned,     \* history: file id -> what its upload_file call answered
    \* ---- the chat endpoint ----
    conversations,  \* table conversations: conversation id -> Conversation row
    messages,       \* table messages: the set of Message rows
    nextConvId      \* conversations created so far + 1

chunkVars == <<text, chunk_size, overlap, start, chunks, cuts, pc>>

svcVars == <<files, rows, disk, store, inflight, nextFileId, deleted, uploader, returned>>

chatVars == <<conversations, messages, nextConvId>>

vars == <<chunkVars, svcVars, chatVars>>

---------------------------------------------------------------------------
\* Bounds of the chunker inputs.
MaxLen == 5
MaxChunkSize == 3

\* Bounds of the service: users, uploads ever accepted, vectors per collection.
NumUsers == 2
MaxFiles == 1
MaxVectors == 2

\* Bounds of the chat endpoint: conversations ever created, messages per
\* conversation.
MaxConversations == 2
MaxMessages == 2

\* Bound of SpecAnswer: vectors in one collection, more than the k of
\* generate_response.
MaxIndexed == 6

Alphabet == {"a", "b", " "}

RECURSIVE SeqsUpTo(_)
SeqsUpTo(n) ==
    IF n = 0 THEN {<<>>}
    ELSE LET shorter == SeqsUpTo(n - 1)
         IN  shorter \cup
             {Append(s, c) : s \in {x \in shorter : Len(x) = n - 1}, c \in Alphabet}

Texts == SeqsUpTo(MaxLen)

---------------------------------------------------------------------------
\* Python sequence semantics used by chunk_text.

\* The characters of '.!?\n ' (file_processor.py:150).
Delims == {".", "!", "?", "\n", " "}

\* s[i] raises IndexError unless -len(s) <= i < len(s).
PyIndexOk(s, i) == (-Len(s) <= i) /\ (i < Len(s))

\* s[i]; a negative i counts from the end.
PyIndex(s, i) == IF i < 0 THEN s[Len(s) + i + 1] ELSE s[i + 1]

\* A slice bound, clamped as Python clamps it.
PyBound(s, i) ==
    IF i < 0 THEN (IF Len(s) + i < 0 THEN 0 ELSE Len(s) + i)
    ELSE (IF i > Len(s) THEN Len(s) ELSE i)

\* s[a:b]
PySlice(s, a, b) == SubSeq(s, PyBound(s, a) + 1, PyBound(s, b))

---------------------------------------------------------------------------
\* chunk_text (file_processor.py:134-159)

\* Mutant of WalkBack: the window scanned upward from the cursor, so that
\* the cut snaps to the first delimiter instead of the last.
WalkBackLowest(t, s, e) ==
    LET halts == {i \in (s + 1)..e : ~PyIndexOk(t, i) \/ PyIndex(t, i) \in Delims}
        low == CHOOSE m \in halts : \A i \in halts : m <= i
    IN  IF ~(e > s) THEN e
        ELSE IF halts = {} THEN s
        ELSE IF ~PyIndexOk(t, low) THEN -Len(t) - 1
        ELSE low

\* The inner loop `while end > start and text[end] not in '.!?\n ': end -= 1`,
\* entered with end = e.  Walking down from e it halts on the first index
\* that holds a delimiter or that text[end] rejects with IndexError, and at
\* s when there is none.  The result is the final `end`, or -Len(t) - 1 -
\* which no walk that returns can end on - for IndexError.
WalkBack(t, s, e) ==
    LET halts == {i \in (s + 1)..e : ~PyIndexOk(t, i) \/ PyIndex(t, i) \in Delims}
        top == CHOOSE m \in halts : \A i \in halts : i <= m
    IN  IF ~(e > s) THEN e
        ELSE IF halts = {} THEN s
        ELSE IF ~PyIndexOk(t, top) THEN -Len(t) - 1
        ELSE top

\* Mutant of FallbackEnd: the raw cut taken one character too far.
FallbackEndOffByOne(s, e, cs) == IF e = s THEN s + cs + 1 ELSE e

\* `if end == start: end = start + chunk_size`
FallbackEnd(s, e, cs) == IF e = s THEN s + cs ELSE e

\* Mutant of NextStart: the cursor set one character further back.
NextStartOneMore(e, ov) == e - ov - 1

\* Mutant of NextStart: the cursor moved to the cut, the overlap dropped.
NextStartNoOverlap(e, ov) == e

\* `start = end - overlap`
NextStart(e, ov) == e - ov

\* Mutant of ChunkEnter: the early return for a short text left out.
ChunkEnterNoEarlyReturn(t, cs) ==
    [pc |-> "loop", start |-> 0, chunks |-> <<>>, cuts |-> <<>>]

\* Lines 136-140: the early return for a short text, else the loop entry.
ChunkEnter(t, cs) ==
    IF Len(t) <= cs
    THEN [pc |-> "done", start |-> 0, chunks |-> <<t>>, cuts |-> <<<<0, Len(t)>>>>]
    ELSE [pc |-> "loop", start |-> 0, chunks |-> <<>>, cuts |-> <<>>]

\* One iteration of `while start < len(text)` (lines 142-157); st is the
\* record of start, chunks, cuts and pc.
ChunkIterate(t, cs, ov, st) ==
    LET end0 == st.start + cs
    IN  IF ~(st.start < Len(t)) THEN [st EXCEPT !.pc = "done"]
        ELSE IF end0 >= Len(t)
        THEN [st EXCEPT !.pc = "done",
                        !.chunks = Append(st.chunks, PySlice(t, st.start, Len(t))),
                        !.cuts = Append(st.cuts, <<st.start, Len(t)>>)]
        ELSE LET w == WalkBack(t, st.start, end0)
             IN  IF w = -Len(t) - 1 THEN [st EXCEPT !.pc = "raise"]
                 ELSE LET end == FallbackEnd(st.start, w, cs)
                      IN  [st EXCEPT !.start = NextStart(end, ov),
                                     !.chunks = Append(st.chunks, PySlice(t, st.start, end)),
                                     !.cuts = Append(st.cuts, <<st.start, end>>)]

\* The scan is a function of the cursor alone, so a cursor that an earlier
\* iteration started from comes back for ever: the loop never ends and
\* `chunks` grows until the interpreter runs out of memory.
CursorRepeats(st) == \E i \in 1..Len(st.cuts) : st.cuts[i][1] = st.start

\* The whole loop, from state st: the state it returns or raises in, or
\* "exhausted" when it never ends.
RECURSIVE ChunkRun(_, _, _, _)
ChunkRun(t, cs, ov, st) ==
    IF st.pc # "loop" THEN st
    ELSE IF CursorRepeats(st) THEN [st EXCEPT !.pc = "exhausted"]
    ELSE ChunkRun(t, cs, ov, ChunkIterate(t, cs, ov, st))

\* chunk_text(text, chunk_size, overlap)
chunk_text(t, cs, ov) == ChunkRun(t, cs, ov, ChunkEnter(t, cs))

---------------------------------------------------------------------------
\* The service: app/api/files.py and RAGService.

Users == 1..NumUsers

\* chunk_text's defaults (file_processor.py:134: chunk_size = 1000 and
\* overlap = 200), which upload_file uses, scaled down to texts of a few
\* characters.  SpecChunk runs chunk_text with every chunk_size and overlap.
DefaultChunkSize == 5
DefaultOverlap == 2

\* _parse_file_size(settings.max_file_size) for "50MB".
max_file_size == 50 * 1024 * 1024

Rep(c, n) == [i \in 1..n |-> c]

\* Uploaded contents: the empty file, one that fits a chunk, one that needs
\* two raw cuts, and one whose only delimiter in the first window lies fewer
\* than DefaultOverlap characters after the cursor.
EmptyText == <<>>
ShortText == <<"h", "i">>
LongText == Rep("a", DefaultChunkSize + 1)
StallText == <<"h", " ">> \o Rep("a", DefaultChunkSize)

\* The uploads a client sends: extension of the file name, size, content,
\* and whether the stored file can be read as its type.
Uploads ==
    {[ext |-> ".txt", size |-> Len(c), content |-> c, readable |-> TRUE] :
        c \in {EmptyText, ShortText, LongText, StallText}}
    \cup
    {[ext |-> ".md", size |-> Len(ShortText), content |-> ShortText, readable |-> FALSE],
     [ext |-> ".exe", size |-> Len(ShortText), content |-> ShortText, readable |-> TRUE],
     [ext |-> ".pdf", size |-> max_file_size + 1, content |-> ShortText, readable |-> TRUE]}

\* FileProcessor.allowed_extensions and _get_file_type.
get_file_type(ext) ==
    IF ext \in {".txt", ".md"} THEN "text"
    ELSE IF ext \in {".pdf"} THEN "pdf"
    ELSE IF ext \in {".jpg", ".jpeg", ".png", ".gif", ".bmp", ".webp"} THEN "image"
    ELSE IF ext \in {".docx", ".doc"} THEN "document"
    ELSE "unknown"

\* _validate_file: the HTTP status it raises, 200 when it raises none.
validate_file(up) ==
    IF up.size > max_file_size THEN 413
    ELSE IF get_file_type(up.ext) = "unknown" THEN 400
    ELSE 200

\* extract_text: [ok, text].  Any error inside is re-raised as
\* HTTPException(500).  A pdf or docx yields its paragraphs, each followed
\* by a newline; an image a placeholder naming the stored file.
extract_text(f, file_type) ==
    IF file_type = "image" THEN [ok |-> TRUE, text |-> <<"[Image: ", ToString(f), "]">>]
    ELSE IF file_type \notin {"text", "pdf", "document"} THEN [ok |-> TRUE, text |-> <<>>]
    ELSE IF f \notin DOMAIN disk \/ ~disk[f].readable THEN [ok |-> FALSE, text |-> <<>>]
    ELSE IF file_type = "text" THEN [ok |-> TRUE, text |-> disk[f].content]
    ELSE [ok |-> TRUE, text |-> disk[f].content \o <<"\n">>]

\* Mutant of NewFile: the column default of processing_status changed.
NewFileBornCompleted(u, file_type) ==
    [user_id |-> u, file_type |-> file_type,
     is_processed |-> FALSE, processing_status |-> "completed"]

\* FileModel(...) with the column defaults of models/file.py:22-23.
NewFile(u, file_type) ==
    [user_id |-> u, file_type |-> file_type,
     is_processed |-> FALSE, processing_status |-> "pending"]

\* Mutant of NewChunk: chunk_index counted from 1.
NewChunkOneBased(f, i, content) ==
    [id |-> <<"chunk", f, i>>, file_id |-> f, chunk_index |-> i + 1,
     content |-> content, embedding_id |-> <<>>]

\* DocumentChunk(file_id, chunk_index, content); embedding_id is NULL,
\* written <<>>.
NewChunk(f, i, content) ==
    [id |-> <<"chunk", f, i>>, file_id |-> f, chunk_index |-> i,
     content |-> content, embedding_id |-> <<>>]

ChunksOf(f) == {r \in rows : r.file_id = f}

\* Mutant of get_user_vector_store: one collection for every user.
SharedVectorStore(u) == <<"user_", 0>>

\* get_user_vector_store: the collection name f"user_{user_id}".
get_user_vector_store(u) == <<"user_", u>>

\* Chroma(collection_name=...) gets or creates the collection.
OpenCollection(st, name) ==
    IF name \in DOMAIN st THEN st ELSE st @@ (name :> {})

\* f"{chunk.file_id}_{chunk.chunk_index}"
EmbeddingId(r) == <<ToString(r.file_id), "_", ToString(r.chunk_index)>>

SvcInit ==
    /\ files = <<>>
    /\ rows = {}
    /\ disk = <<>>
    /\ store = <<>>
    /\ inflight = {}
    /\ nextFileId = 1
    /\ deleted = <<>>
    /\ uploader = <<>>
    /\ returned = <<>>

\* No conversation yet.
ChatInit ==
    /\ conversations = <<>>
    /\ messages = {}
    /\ nextConvId = 1

Init ==
    /\ SvcInit
    /\ ChatInit
    /\ text = <<>>
    /\ chunk_size = DefaultChunkSize
    /\ overlap = DefaultOverlap
    /\ start = 0
    /\ chunks = <<>>
    /\ cuts = <<>>
    /\ pc = "idle"

Without(fn, x) == [y \in DOMAIN fn \ {x} |-> fn[y]]

Min(a, b) == IF a < b THEN a ELSE b

\* The orders in which a query without ORDER BY can return the rows S.
Orderings(S) ==
    {q \in [1..Cardinality(S) -> S] : \A i, j \in 1..Cardinality(S) : q[i] = q[j] => i = j}

\* ---- upload_file (files.py:16-65) ----

\* save_file refuses the upload: _validate_file raises 413 or 400 before
\* anything is stored.
UploadReject(u, up) ==
    /\ validate_file(up) # 200
    /\ UNCHANGED svcVars
    /\ UNCHANGED <<chunkVars, chatVars>>

\* Lines 23-37: the file is stored, the File row is added and committed.
UploadAccept(u, up) ==
    /\ validate_file(up) = 200
    /\ nextFileId <= MaxFiles
    /\ LET f == nextFileId
           ft == get_file_type(up.ext)
       IN  /\ disk' = disk @@ (f :> [content |-> up.content, readable |-> up.readable])
           /\ files' = files @@ (f :> NewFile(u, ft))
           /\ inflight' = inflight \cup {[file |-> f, user |-> u, file_type |-> ft]}
           /\ nextFileId' = f + 1
           /\ uploader' = uploader @@ (f :> u)
    /\ UNCHANGED <<rows, store, deleted, returned>>
    /\ UNCHANGED <<chunkVars, chatVars>>

\* Mutant of ProcessFile: an extraction error swallowed, the text taken to
\* be empty.
ProcessFileSwallowsError(f, file_type) ==
    LET ex == extract_text(f, file_type)
        cr == chunk_text(ex.text, DefaultChunkSize, DefaultOverlap)
    IN  IF cr.pc = "done"
        THEN [status |-> "completed", chunks |-> cr.chunks, outcome |-> "done"]
        ELSE [status |-> "failed", chunks |-> <<>>, outcome |-> cr.pc]

\* What the try block of lines 41-60 leaves: the status, the chunks added
\* to the session, and how chunk_text ended.
ProcessFile(f, file_type) ==
    LET ex == extract_text(f, file_type)
        cr == chunk_text(ex.text, DefaultChunkSize, DefaultOverlap)
    IN  IF ~ex.ok THEN [status |-> "failed", chunks |-> <<>>, outcome |-> "raise"]
        ELSE IF cr.pc = "done"
        THEN [status |-> "completed", chunks |-> cr.chunks, outcome |-> "done"]
        ELSE [status |-> "failed", chunks |-> <<>>, outcome |-> cr.pc]

\* Lines 41-65: extraction, chunking, the status update and the commit.
\* A chunk_text that never ends is cut short by MemoryError, which the
\* except clause turns into "failed".  When the File row was deleted
\* meanwhile, the UPDATE of line 62 matches no row: the commit raises,
\* nothing is written and the request is answered 500.  Otherwise the
\* refreshed row is returned (line 65).
UploadResult(req) ==
    LET res == ProcessFile(req.file, req.file_type)
        row == [files[req.file] EXCEPT !.processing_status = res.status,
                                       !.is_processed = (res.status = "completed")]
    IN  IF req.file \notin DOMAIN files
        THEN [code |-> 500, outcome |-> res.outcome,
              record |-> NewFile(req.user, req.file_type),
              files |-> files, rows |-> rows]
        ELSE [code |-> 200, outcome |-> res.outcome, record |-> row,
              files |-> [files EXCEPT ![req.file] = row],
              rows |-> rows \cup
                    {NewChunk(req.file, i - 1, res.chunks[i]) : i \in 1..Len(res.chunks)}]

UploadProcess(req) ==
    /\ req \in inflight
    /\ inflight' = inflight \ {req}
    /\ files' = UploadResult(req).files
    /\ rows' = UploadResult(req).rows
    /\ returned' = returned @@
            (req.file :> [code |-> UploadResult(req).code,
                          outcome |-> UploadResult(req).outcome,
                          record |-> UploadResult(req).record])
    /\ UNCHANGED <<disk, store, nextFileId, deleted, uploader>>
    /\ UNCHANGED <<chunkVars, chatVars>>

\* Lines 41-43 when chunk_text never ends and the operating system kills
\* the server for its memory before MemoryError is raised: every request
\* in flight is lost, what was committed stays.
UploadKilled(req) ==
    /\ req \in inflight
    /\ req.file \in DOMAIN files
    /\ ProcessFile(req.file, req.file_type).outcome = "exhausted"
    /\ inflight' = {}
    /\ UNCHANGED <<files, rows, disk, store, nextFileId, deleted, uploader, returned>>
    /\ UNCHANGED <<chunkVars, chatVars>>

\* ---- delete_file (files.py:103-128) ----

\* Mutant of DeleteFileQuery: the user_id filter left out.
DeleteFileQueryAnyOwner(u, f) == f \in DOMAIN files

\* Lines 109-112: is there a File row with this id and user_id = caller.
DeleteFileQuery(u, f) == f \in DOMAIN files /\ files[f].user_id = u

\* Mutant of RemoveStoredFile: the OSError of a missing file not caught.
RemoveStoredFileUnguarded(f) ==
    [raised |-> f \notin DOMAIN disk,
     disk |-> [y \in DOMAIN disk \ {f} |-> disk[y]]]

\* Lines 119-122: os.remove(file.file_path); the OSError of a file that is
\* not there is passed over.
RemoveStoredFile(f) ==
    [raised |-> FALSE, disk |-> [y \in DOMAIN disk \ {f} |-> disk[y]]]

\* delete_file as a function of the state: the status it answers, the
\* tables, upload directory and Chroma directory it leaves, and the id
\* lists it hands to the vector store for deletion.  Lines 114-115 answer
\* 404; lines 117-126 remove the stored file and delete the row (the chunks
\* with it, by cascade).  Nothing touches the vector store.
delete_file(u, f) ==
    IF ~DeleteFileQuery(u, f)
    THEN [code |-> 404, files |-> files, rows |-> rows, disk |-> disk, store |-> store,
          index_deletes |-> {}]
    ELSE IF RemoveStoredFile(f).raised
    THEN [code |-> 500, files |-> files, rows |-> rows, disk |-> disk, store |-> store,
          index_deletes |-> {}]
    ELSE [code |-> 200, files |-> Without(files, f), rows |-> rows \ ChunksOf(f),
          disk |-> RemoveStoredFile(f).disk, store |-> store,
          index_deletes |-> {}]

\* delete_file cut short (the worker dies) after os.remove of line 120 and
\* before the commit of line 126: the stored file is gone, the row stays.
DeleteFileInterrupted(u, f) ==
    /\ DeleteFileQuery(u, f)
    /\ f \in DOMAIN disk
    /\ disk' = RemoveStoredFile(f).disk
    /\ UNCHANGED <<files, rows, store, inflight, nextFileId, deleted, uploader, returned>>
    /\ UNCHANGED <<chunkVars, chatVars>>

\* Lines 109-115: no File row with this id owned by the caller: 404.
DeleteFileNotFound(u, f) ==
    /\ delete_file(u, f).code = 404
    /\ files' = delete_file(u, f).files
    /\ rows' = delete_file(u, f).rows
    /\ disk' = delete_file(u, f).disk
    /\ store' = delete_file(u, f).store
    /\ UNCHANGED <<inflight, nextFileId, deleted, uploader, returned>>
    /\ UNCHANGED <<chunkVars, chatVars>>

\* Lines 117-128: the stored file is removed, the row deleted (the chunks
\* with it, by cascade).
DeleteFile(u, f) ==
    /\ delete_file(u, f).code = 200
    /\ files' = delete_file(u, f).files
    /\ rows' = delete_file(u, f).rows
    /\ disk' = delete_file(u, f).disk
    /\ store' = delete_file(u, f).store
    /\ deleted' = deleted @@ (f :> u)
    /\ UNCHANGED <<inflight, nextFileId, uploader, returned>>
    /\ UNCHANGED <<chunkVars, chatVars>>

\* ---- list_files and get_file (files.py:68-100) ----

\* What the endpoints answer for a File row (schemas/file.py:12-19).
FileUploadResponse(f) ==
    [id |-> f, file_type |-> files[f].file_type,
     processing_status |-> files[f].processing_status]

\* The skip and limit a client sends: skip >= 0, 1 <= limit <= 100.
Skips == {0, 1}
Limits == {1, 2}

\* Mutant of ListFilesFilter: the user_id filter left out.
ListFilesFilterNone(u) == DOMAIN files

\* Lines 75-77 and 79-80: filter(FileModel.user_id == current_user.id).
ListFilesFilter(u) == {f \in DOMAIN files : files[f].user_id = u}

\* list_files (lines 68-83): the answers it can give in this state; the
\* query has no ORDER BY.
list_files(u, skip, limit) ==
    {[files |-> [i \in 1..(Min(Len(q), skip + limit) - Min(Len(q), skip)) |->
                    FileUploadResponse(q[Min(Len(q), skip) + i])],
      total |-> Cardinality(ListFilesFilter(u))] : q \in Orderings(ListFilesFilter(u))}

ListFiles(u, skip, limit) ==
    /\ list_files(u, skip, limit) # {}
    /\ UNCHANGED svcVars
    /\ UNCHANGED <<chunkVars, chatVars>>

\* Lines 92-95.
GetFileQuery(u, f) == f \in DOMAIN files /\ files[f].user_id = u

\* get_file (lines 86-100): 404 at lines 97-98, else the row.
get_file(u, f) ==
    IF ~GetFileQuery(u, f) THEN [code |-> 404, file |-> <<>>]
    ELSE [code |-> 200, file |-> <<FileUploadResponse(f)>>]

GetFile(u, f) ==
    /\ get_file(u, f).code \in {200, 404}
    /\ UNCHANGED svcVars
    /\ UNCHANGED <<chunkVars, chatVars>>

\* ---- RAGService (rag_service.py) ----

\* Lines 83-94 and 98: the vector of a chunk.  add_documents is called
\* without ids, so Chroma draws a fresh uuid1 for it: the n-th one drawn
\* for this chunk in this collection.  added_for and batch_index are
\* history: the user_id the vector was added under, and its place in the
\* list handed to add_documents.
VectorOf(r, u, n, i) ==
    [id |-> <<"uuid1", ToString(r.file_id), ToString(r.chunk_index), ToString(n)>>,
     page_content |-> r.content,
     metadata |-> [chunk_id |-> r.id, file_id |-> r.file_id, chunk_index |-> r.chunk_index],
     added_for |-> u,
     batch_index |-> i]

\* The vectors of a collection made from the chunk with this id.
CopiesOf(vs, chunk_id) == {v \in vs : v.metadata.chunk_id = chunk_id}

\* add_documents_to_vector_store (lines 71-108) for a file without chunks:
\* the early return of lines 80-81.
AddDocumentsNone(u, f) ==
    /\ ChunksOf(f) = {}
    /\ UNCHANGED svcVars
    /\ UNCHANGED <<chunkVars, chatVars>>

\* Lines 97-99: the Chroma directory once the documents made from the rows
\* q, in this order, are added to the user's collection.
StoreWithBatch(u, q) ==
    LET name == get_user_vector_store(u)
        opened == OpenCollection(store, name)
    IN  [opened EXCEPT ![name] =
            @ \cup {VectorOf(q[i], u, Cardinality(CopiesOf(opened[name], q[i].id)) + 1, i) :
                        i \in 1..Len(q)}]

\* The collection has room for the rows q (cap is the bound of the model).
RoomFor(u, q, cap) ==
    LET name == get_user_vector_store(u)
    IN  Cardinality(OpenCollection(store, name)[name]) + Len(q) <= cap

\* add_documents_to_vector_store (lines 71-108), the collection kept to cap
\* vectors.
AddDocumentsWithin(u, f, cap) ==
    /\ ChunksOf(f) # {}
    /\ \E q \in Orderings(ChunksOf(f)) :
        /\ RoomFor(u, q, cap)
        /\ store' = StoreWithBatch(u, q)
        /\ rows' = (rows \ ChunksOf(f)) \cup
                {[r EXCEPT !.embedding_id = EmbeddingId(r)] : r \in ChunksOf(f)}
    /\ UNCHANGED <<files, disk, inflight, nextFileId, deleted, uploader, returned>>
    /\ UNCHANGED <<chunkVars, chatVars>>

\* add_documents_to_vector_store (lines 71-108).
AddDocuments(u, f) == AddDocumentsWithin(u, f, MaxVectors)

\* Mutant of RowsAfterFailedAdd: the embedding ids written although the
\* add raised.
RowsAfterFailedAddMarked(f) ==
    (rows \ ChunksOf(f)) \cup {[r EXCEPT !.embedding_id = EmbeddingId(r)] : r \in ChunksOf(f)}

\* The chunk rows when line 98 or 99 raises: lines 102-105 are not reached
\* and the finally clause closes the session without a commit.
RowsAfterFailedAdd(f) == rows

\* add_documents_to_vector_store when add_documents (line 98) or persist
\* (line 99) raises: the collection has been opened, and the vectors are
\* written or not.
AddDocumentsRaises(u, f) ==
    /\ ChunksOf(f) # {}
    /\ \E q \in Orderings(ChunksOf(f)) :
        \/ store' = OpenCollection(store, get_user_vector_store(u))
        \/ RoomFor(u, q, MaxVectors) /\ store' = StoreWithBatch(u, q)
    /\ rows' = RowsAfterFailedAdd(f)
    /\ UNCHANGED <<files, disk, inflight, nextFileId, deleted, uploader, returned>>
    /\ UNCHANGED <<chunkVars, chatVars>>

\* similarity_search_with_score(query, k): the k nearest vectors of the
\* collection (all of them when it holds fewer), nearest first.  The
\* embedding is a black box: any ranking is possible.
RECURSIVE Nearest(_, _)
Nearest(vs, m) ==
    IF m <= 0 THEN {<<>>}
    ELSE UNION {{<<v>> \o q : q \in Nearest(vs \ {v}, m - 1)} : v \in vs}

Rankings(vs, k) == Nearest(vs, Min(k, Cardinality(vs)))

\* Lines 117-124.
FormatResults(ranking) ==
    [i \in 1..Len(ranking) |->
        [content |-> ranking[i].page_content, metadata |-> ranking[i].metadata,
         rank |-> i, added_for |-> ranking[i].added_for]]

Queries == {<<"q", "?">>}
SearchKs == {1, 2}

\* search_documents (lines 110-126): the lists it can return in this state.
search_documents(u, query, k) ==
    LET name == get_user_vector_store(u)
    IN  {FormatResults(r) : r \in Rankings(OpenCollection(store, name)[name], k)}

\* The k a client can send besides: the endpoint takes any int (chat.py:168).
BadKs == {0, -1}

\* search_documents (lines 110-126) as a function of the state: how it can
\* end and the Chroma directory it leaves.  Line 112 opens the user's
\* collection, creating it if it was not there, before anything looks at k.
\* What Chroma answers to k <= 0 lies outside the repository: it raises its
\* own error, which the endpoint reports as 500 (chat.py:179-183), or it
\* returns no result.
SearchOutcomes(u, query, k) ==
    LET opened == OpenCollection(store, get_user_vector_store(u))
    IN  IF k <= 0
        THEN {[error |-> e, results |-> <<>>, store |-> opened] : e \in {"backend", "none"}}
        ELSE {[error |-> "none", results |-> r, store |-> opened] :
                    r \in search_documents(u, query, k)}

\* search_documents (lines 110-126): what it leaves behind, the user's
\* collection, created if it was not there.
SearchDocuments(u, query, k) ==
    /\ \E o \in SearchOutcomes(u, query, k) : store' = o.store
    /\ UNCHANGED <<files, rows, disk, inflight, nextFileId, deleted, uploader, returned>>
    /\ UNCHANGED <<chunkVars, chatVars>>

\* ---- delete_file_from_vector_store (lines 181-202) ----

\* Line 197: the ids handed to vector_store.delete.
IdsToDelete(f) == {EmbeddingId(r) : r \in ChunksOf(f)}

\* Mutant of ChromaDelete: the collection emptied.
ChromaDeleteAll(vs, ids) == {}

\* vector_store.delete(ids) (line 198): the vectors with a listed id are
\* removed; a listed id that no vector has is passed over without error.
ChromaDelete(vs, ids) == {v \in vs : v.id \notin ids}

\* delete_file_from_vector_store as a function of the state: whether it
\* raises and the Chroma directory it leaves.  Lines 190-191 return early
\* for a file without chunk rows.
delete_file_from_vector_store(u, f) ==
    LET name == get_user_vector_store(u)
        opened == OpenCollection(store, name)
    IN  IF ChunksOf(f) = {} THEN [raised |-> FALSE, store |-> store]
        ELSE [raised |-> FALSE,
              store |-> [opened EXCEPT ![name] = ChromaDelete(@, IdsToDelete(f))]]

DeleteFromVectorStore(u, f) ==
    /\ store' = delete_file_from_vector_store(u, f).store
    /\ UNCHANGED <<files, rows, disk, inflight, nextFileId, deleted, uploader, returned>>
    /\ UNCHANGED <<chunkVars, chatVars>>

\* Mutant of Join: the texts joined by a single newline.
RECURSIVE JoinSingleNewline(_)
JoinSingleNewline(ts) ==
    IF Len(ts) = 0 THEN <<>>
    ELSE IF Len(ts) = 1 THEN ts[1]
    ELSE ts[1] \o <<"\n">> \o JoinSingleNewline(Tail(ts))

\* "\n\n".join(...)
RECURSIVE Join(_)
Join(ts) ==
    IF Len(ts) = 0 THEN <<>>
    ELSE IF Len(ts) = 1 THEN ts[1]
    ELSE ts[1] \o <<"\n", "\n">> \o Join(Tail(ts))

\* Mutant of Prompt: the question left out of the prompt.
PromptNoQuestion(context, query) ==
    <<"Use the following pieces of context to answer the question at the end.\n",
      "If you don't know the answer from the context, just say that you don't know.\n",
      "Do not try to make up an answer. Keep the answer concise and relevant.\n\n",
      "Context: ">> \o context \o <<"\n\nQuestion: ">> \o <<"\n\nAnswer:">>

\* The f-string of lines 137-145.
Prompt(context, query) ==
    <<"Use the following pieces of context to answer the question at the end.\n",
      "If you don't know the answer from the context, just say that you don't know.\n",
      "Do not try to make up an answer. Keep the answer concise and relevant.\n\n",
      "Context: ">> \o context \o <<"\n\nQuestion: ">> \o query \o <<"\n\nAnswer:">>

\* The k that generate_response searches with (line 131).
GenerateK == 5

\* What the file_ids argument can be: None, the empty list, or a list of
\* one file id, that of a document or one that names no document.
FileIdArgs ==
    {[given |-> FALSE, ids |-> <<>>], [given |-> TRUE, ids |-> <<>>]}
    \cup {[given |-> TRUE, ids |-> <<f>>] : f \in 1..(MaxFiles + 1)}

\* Mutant of generate_context: the hits kept to the files of file_ids when
\* the argument is given.
generate_context_scoped(u, query, file_ids) ==
    {Join([i \in 1..Len(res) |-> res[i].content]) :
        res \in {SelectSeq(r, LAMBDA h : ~file_ids.given
                                        \/ \E j \in 1..Len(file_ids.ids) :
                                                file_ids.ids[j] = h.metadata.file_id) :
                    r \in search_documents(u, query, GenerateK)}}

\* generate_response, lines 131-134: the context blocks it can build in
\* this state.
generate_context(u, query, file_ids) ==
    {Join([i \in 1..Len(res) |-> res[i].content]) : res \in search_documents(u, query, GenerateK)}

\* generate_response, lines 131-148: the prompts it can hand to the LM.
generate_prompt(u, query, file_ids) ==
    {Prompt(c, query) : c \in generate_context(u, query, file_ids)}

\* What the backends of generate_response can do in one call: the search
\* (embedding and Chroma, line 131) and the LM (self.llm.invoke, line 148)
\* each answer or raise; content is response.content.
Backends ==
    {[search_ok |-> TRUE, llm_ok |-> TRUE, content |-> <<"answer">>],
     [search_ok |-> TRUE, llm_ok |-> FALSE, content |-> <<>>],
     [search_ok |-> FALSE, llm_ok |-> TRUE, content |-> <<>>]}

\* generate_response (lines 128-150) as a function of the state: how it can
\* end.  prompt is what the LM was invoked with (<<>> when it was not),
\* store the Chroma directory it leaves: the search has opened the user's
\* collection.
generate_response(u, query, file_ids, env) ==
    LET opened == OpenCollection(store, get_user_vector_store(u))
    IN  IF ~env.search_ok
        THEN {[raised |-> TRUE, prompt |-> <<>>, content |-> <<>>, store |-> opened]}
        ELSE {[raised |-> ~env.llm_ok, prompt |-> p,
               content |-> IF env.llm_ok THEN env.content ELSE <<>>,
               store |-> opened] : p \in generate_prompt(u, query, file_ids)}

\* generate_response (lines 128-150): what it leaves behind, the user's
\* collection, created by the search if it was not there.
GenerateResponse(u, query, file_ids) ==
    /\ store' \in UNION {{r.store : r \in generate_response(u, query, file_ids, env)} :
                            env \in Backends}
    /\ UNCHANGED <<files, rows, disk, inflight, nextFileId, deleted, uploader, returned>>
    /\ UNCHANGED <<chunkVars, chatVars>>

---------------------------------------------------------------------------
\* The chat endpoint (app/api/chat.py:21-89).  Timestamps are left out.

\* The cut of the title, request.message[:50] (line 42).
TitleLen == 50

ShortMessage == <<"h", "i", "?">>
LongMessage == Rep("m", TitleLen + 1)

\* ChatRequest (schemas/conversation.py:49-52); conversation_id 0 is None.
ChatRequests ==
    {[message |-> m, conversation_id |-> c, related_files |-> fs] :
        m \in {ShortMessage, LongMessage}, c \in 0..MaxConversations, fs \in FileIdArgs}

\* Line 42.
Title(message) ==
    IF Len(message) > TitleLen THEN PySlice(message, 0, TitleLen) \o <<"...">> ELSE message

\* Lines 31-34.
ConversationQuery(u, c) == c \in DOMAIN conversations /\ conversations[c].user_id = u

MessagesOf(c) == {m \in messages : m.conversation_id = c}

\* Message(...) of lines 49-54 and 71-75; n tells the rows of one
\* conversation apart, as their uuid keys do.
NewMessage(c, n, role, content, related_files) ==
    [conversation_id |-> c, n |-> n, role |-> role, content |-> content,
     related_files |-> related_files]

\* chat as a function of the state: the ways it can end, each with the
\* status it answers and the tables and Chroma directory it leaves.
\* Lines 36-37 answer 404.  Lines 40-46 add a new Conversation and commit
\* it.  Lines 49-55 add the user message to the session.  When
\* generate_response raises, lines 64-68 answer 500: the session is closed
\* without a commit and the user message is lost, the Conversation
\* committed at line 45 stays.  Otherwise lines 71-82 add the assistant
\* message and commit both.
chat(u, req, env) ==
    LET given == req.conversation_id # 0
        c == IF given THEN req.conversation_id ELSE nextConvId
        committed == IF given THEN conversations
                     ELSE conversations @@ (c :> [user_id |-> u, title |-> Title(req.message)])
        k == Cardinality(MessagesOf(c))
        user_message == NewMessage(c, k + 1, "user", req.message, req.related_files.ids)
    IN  IF given /\ ~ConversationQuery(u, c)
        THEN {[code |-> 404, message |-> <<>>, conversations |-> conversations,
               messages |-> messages, nextConvId |-> nextConvId, store |-> store]}
        ELSE {IF r.raised
              THEN [code |-> 500, message |-> <<>>, conversations |-> committed,
                    messages |-> messages,
                    nextConvId |-> IF given THEN nextConvId ELSE nextConvId + 1,
                    store |-> r.store]
              ELSE [code |-> 200, message |-> r.content, conversations |-> committed,
                    messages |-> messages \cup
                        {user_message, NewMessage(c, k + 2, "assistant", r.content, <<>>)},
                    nextConvId |-> IF given THEN nextConvId ELSE nextConvId + 1,
                    store |-> r.store] :
                r \in generate_response(u, req.message, req.related_files, env)}

\* One chat request that ends with the given status.
ChatEnds(u, req, env, code) ==
    /\ req.conversation_id = 0 => nextConvId <= MaxConversations
    /\ \E r \in chat(u, req, env) :
        /\ r.code = code
        /\ \A c \in DOMAIN r.conversations :
                Cardinality({m \in r.messages : m.conversation_id = c}) <= MaxMessages
        /\ conversations' = r.conversations
        /\ messages' = r.messages
        /\ nextConvId' = r.nextConvId
        /\ store' = r.store
    /\ UNCHANGED <<files, rows, disk, inflight, nextFileId, deleted, uploader, returned>>
    /\ UNCHANGED chunkVars

ChatNotFound(u, req, env) == ChatEnds(u, req, env, 404)

ChatFailed(u, req, env) == ChatEnds(u, req, env, 500)

ChatAnswered(u, req, env) == ChatEnds(u, req, env, 200)

\* Line 27: pdb.set_trace() stops every request in the debugger; when the
\* debugger is quit, or has no terminal to read from, BdbQuit ends the
\* request before line 29.
ChatDebuggerQuit(u, req) ==
    /\ req \in ChatRequests
    /\ UNCHANGED <<chunkVars, svcVars, chatVars>>

ChatNext ==
    \/ \E u \in Users, req \in ChatRequests, env \in Backends : ChatNotFound(u, req, env)
    \/ \E u \in Users, req \in ChatRequests, env \in Backends : ChatFailed(u, req, env)
    \/ \E u \in Users, req \in ChatRequests, env \in Backends : ChatAnswered(u, req, env)
    \/ \E u \in Users, req \in ChatRequests : ChatDebuggerQuit(u, req)

SpecChat == Init /\ [][ChatNext]_vars

---------------------------------------------------------------------------
Next ==
    \/ \E u \in Users, up \in Uploads : UploadReject(u, up)
    \/ \E u \in Users, up \in Uploads : UploadAccept(u, up)
    \/ \E req \in inflight : UploadProcess(req)
    \/ \E req \in inflight : UploadKilled(req)
    \/ \E u \in Users, f \in 1..MaxFiles : DeleteFileNotFound(u, f)
    \/ \E u \in Users, f \in 1..MaxFiles : DeleteFile(u, f)
    \/ \E u \in Users, f \in 1..MaxFiles : DeleteFileInterrupted(u, f)
    \/ \E u \in Users, skip \in Skips, limit \in Limits : ListFiles(u, skip, limit)
    \/ \E u \in Users, f \in 1..MaxFiles : GetFile(u, f)
    \/ \E u \in Users, f \in 1..MaxFiles : AddDocumentsNone(u, f)
    \/ \E u \in Users, f \in 1..MaxFiles : AddDocuments(u, f)
    \/ \E u \in Users, f \in 1..MaxFiles : AddDocumentsRaises(u, f)
    \/ \E u \in Users, query \in Queries, k \in SearchKs \cup BadKs :
            SearchDocuments(u, query, k)
    \/ \E u \in Users, f \in 1..MaxFiles : DeleteFromVectorStore(u, f)
    \/ \E u \in Users, query \in Queries, file_ids \in FileIdArgs :
            GenerateResponse(u, query, file_ids)

Spec == Init /\ [][Next]_vars

---------------------------------------------------------------------------
\* SpecAnswer: uploads, indexing while the collections hold no more than
\* MaxIndexed vectors altogether, and generate_response.

AnswerNext ==
    \/ \E u \in Users, up \in Uploads : UploadAccept(u, up)
    \/ \E req \in inflight : UploadProcess(req)
    \/ \E u \in Users, f \in 1..MaxFiles :
            /\ Cardinality(UNION {store[n] : n \in DOMAIN store}) + Cardinality(ChunksOf(f))
                    <= MaxIndexed
            /\ AddDocumentsWithin(u, f, MaxIndexed)
    \/ \E u \in Users, query \in Queries, file_ids \in FileIdArgs :
            GenerateResponse(u, query, file_ids)

SpecAnswer == Init /\ [][AnswerNext]_vars

---------------------------------------------------------------------------
\* SpecChunk: one call of chunk_text on every bounded input.

ChunkInit ==
    /\ text \in Texts
    /\ chunk_size \in 1..MaxChunkSize
    /\ overlap \in 0..MaxChunkSize
    /\ pc = "call"
    /\ start = 0
    /\ chunks = <<>>
    /\ cuts = <<>>
    /\ SvcInit
    /\ ChatInit

ChunkState == [pc |-> pc, start |-> start, chunks |-> chunks, cuts |-> cuts]

SetChunkState(st) ==
    /\ pc' = st.pc
    /\ start' = st.start
    /\ chunks' = st.chunks
    /\ cuts' = st.cuts
    /\ UNCHANGED <<text, chunk_size, overlap>>
    /\ UNCHANGED <<svcVars, chatVars>>

\* Lines 136-140.
ChunkCall ==
    /\ pc = "call"
    /\ SetChunkState(ChunkEnter(text, chunk_size))

\* Lines 142-157, one iteration.
ChunkLoop ==
    /\ pc = "loop"
    /\ ~CursorRepeats(ChunkState)
    /\ SetChunkState(ChunkIterate(text, chunk_size, overlap, ChunkState))

\* The cursor is back where an earlier iteration started: the loop never
\* ends, and the list grows until the interpreter runs out of memory.
ChunkExhaust ==
    /\ pc = "loop"
    /\ CursorRepeats(ChunkState)
    /\ SetChunkState([ChunkState EXCEPT !.pc = "exhausted"])

ChunkNext == ChunkCall \/ ChunkLoop \/ ChunkExhaust

SpecChunk == ChunkInit /\ [][ChunkNext]_vars

FairSpecChunk == SpecChunk /\ WF_vars(ChunkNext)

---------------------------------------------------------------------------
\* Claims about chunk_text, checked under SpecChunk / FairSpecChunk.

\* The configurations the chunker claims cover: 0 <= overlap < chunk_size.
ValidConfig == (0 <= overlap) /\ (overlap < chunk_size)

NoDelims(t) == \A i \in 1..Len(t) : t[i] \notin Delims

\* C1: for a non-empty text and 0 <= overlap < chunk_size, no chunk that
\* chunk_text has appended is the empty string.
C1_NoEmptyChunk ==
    (Len(text) > 0 /\ ValidConfig) =>
        \A i \in 1..Len(chunks) : chunks[i] # <<>>

\* C2: for 0 <= overlap < chunk_size, chunk_text terminates: the scan
\* eventually emits the remaining tail of the text and returns.
C2_Terminates ==
    ValidConfig =>
        <>(pc = "done" /\ Len(cuts) > 0 /\ cuts[Len(cuts)][2] = Len(text))

\* C8: for a text with len(text) <= chunk_size (the empty text included),
\* chunk_text returns exactly one element, equal to the text.
C8_ShortTextOneChunk ==
    (pc # "call" /\ Len(text) <= chunk_size) =>
        (pc = "done" /\ chunks = <<text>>)

C8_Witness ==
    /\ pc = "done"
    /\ Len(text) = chunk_size
    /\ chunks = <<text>>

\* C9: for 0 <= overlap < chunk_size, every chunk that chunk_text emits has
\* at most chunk_size characters.
C9_ChunkLenBounded ==
    ValidConfig =>
        \A i \in 1..Len(chunks) : Len(chunks[i]) <= chunk_size

C9_Witness ==
    /\ pc = "done"
    /\ ValidConfig
    /\ Len(chunks) >= 3
    /\ \E i \in 1..Len(chunks) : Len(chunks[i]) = chunk_size
    /\ \E i \in 1..Len(chunks) : Len(chunks[i]) < chunk_size /\ cuts[i][2] < Len(text)

\* C10: for a text longer than chunk_size with no delimiter character and
\* 0 <= overlap < chunk_size, chunk_text cuts at raw offsets: every chunk
\* is text[start:start + chunk_size] (the last one text[start:]), every
\* chunk after the first starts exactly `overlap` characters before the end
\* of the previous one, and the last chunk ends at the end of the text.
C10_RawCuts ==
    (pc # "call" /\ NoDelims(text) /\ Len(text) > chunk_size /\ ValidConfig) =>
        /\ pc \in {"loop", "done"}
        /\ Len(chunks) = Len(cuts)
        /\ \A i \in 1..Len(cuts) :
            /\ cuts[i][1] = (IF i = 1 THEN 0 ELSE cuts[i - 1][2] - overlap)
            /\ chunks[i] = SubSeq(text, cuts[i][1] + 1, cuts[i][2])
            /\ (i < Len(cuts) \/ pc = "loop") => cuts[i][2] = cuts[i][1] + chunk_size
        /\ pc = "done" => (Len(cuts) > 1 /\ cuts[Len(cuts)][2] = Len(text))

C10_Witness ==
    /\ pc = "done"
    /\ NoDelims(text)
    /\ ValidConfig
    /\ overlap > 0
    /\ Len(chunks) >= 3
    /\ \E i \in 1..Len(text) : text[i] # text[1]

\* C17: chunk_text called with overlap >= chunk_size on a text longer than
\* chunk_size is rejected as a configuration error: it raises before the
\* scan appends anything.
C17_BadOverlapRejected ==
    (pc # "call" /\ overlap >= chunk_size /\ Len(text) > chunk_size) =>
        (pc = "raise" /\ chunks = <<>>)

\* C20: for 0 <= overlap < chunk_size the cursor of chunk_text is never
\* negative and every loop iteration leaves it strictly greater than it
\* found it.
C20_CursorAdvances ==
    ValidConfig =>
        /\ start >= 0
        /\ \A i \in 1..Len(cuts) :
            /\ cuts[i][1] >= 0
            /\ i > 1 => cuts[i][1] > cuts[i - 1][1]
        /\ (pc = "loop" /\ Len(cuts) > 0) => start > cuts[Len(cuts)][1]

\* The chunks cs with the overlap undone: the first chunk, then every
\* later chunk without its first ov characters.
RECURSIVE UndoOverlap(_, _)
UndoOverlap(cs, ov) ==
    IF Len(cs) = 0 THEN <<>>
    ELSE IF Len(cs) = 1 THEN cs[1]
    ELSE UndoOverlap(SubSeq(cs, 1, Len(cs) - 1), ov)
            \o SubSeq(cs[Len(cs)], ov + 1, Len(cs[Len(cs)]))

\* C21: for 0 <= overlap < chunk_size, the chunks that chunk_text returns
\* give back the text once the overlap is undone: the first chunk followed
\* by every later chunk without its first `overlap` characters is the text.
C21_ChunksReconstructText ==
    (pc = "done" /\ ValidConfig) => UndoOverlap(chunks, overlap) = text

C21_Witness ==
    /\ pc = "done"
    /\ ValidConfig
    /\ overlap > 0
    /\ Len(chunks) >= 3
    /\ \E i \in 1..(Len(cuts) - 1) : cuts[i][2] < cuts[i][1] + chunk_size
    /\ UndoOverlap(chunks, overlap) = text

\* text[i] is a delimiter; a negative i counts from the end of the text, as
\* it does in the slice text[cursor:boundary].
DelimAt(i) == PyIndexOk(text, i) /\ PyIndex(text, i) \in Delims

\* The cut i is not the last chunk of a returned list.
NonFinal(i) == i < Len(cuts) \/ pc = "loop"

\* C22: for every non-final chunk text[cursor:boundary], either there is a
\* delimiter at boundary and none in (boundary, cursor + chunk_size], or
\* there is none in (cursor, cursor + chunk_size] and boundary is
\* cursor + chunk_size.
C22_CutsSnapToLastDelimiter ==
    \A i \in 1..Len(cuts) :
        NonFinal(i) =>
            LET cursor == cuts[i][1]
                boundary == cuts[i][2]
            IN  \/ /\ DelimAt(boundary)
                   /\ \A j \in (boundary + 1)..(cursor + chunk_size) : ~DelimAt(j)
                \/ /\ \A j \in (cursor + 1)..(cursor + chunk_size) : ~DelimAt(j)
                   /\ boundary = cursor + chunk_size

C22_Witness ==
    /\ pc = "done"
    /\ \E i \in 1..(Len(cuts) - 1) :
        /\ DelimAt(cuts[i][2])
        /\ cuts[i][2] < cuts[i][1] + chunk_size
        /\ \E j \in (cuts[i][1] + 1)..(cuts[i][2] - 1) : DelimAt(j)
    /\ \E i \in 1..(Len(cuts) - 1) : cuts[i][2] = cuts[i][1] + chunk_size

---------------------------------------------------------------------------
\* Claims about the service, checked under Spec.

\* The files whose upload_file call is still between its two commits.
InFlightFiles == {req.file : req \in inflight}

\* t occurs in s, character for character.
Contains(s, t) == \E i \in 0..(Len(s) - Len(t)) : SubSeq(s, i + 1, i + Len(t)) = t

VectorsOf(u) ==
    IF get_user_vector_store(u) \in DOMAIN store THEN store[get_user_vector_store(u)] ELSE {}

\* C3: after delete_file has succeeded for a document, none of its Chunk
\* rows remain, none of its vectors remain in the owner's namespace, and no
\* search by the owner returns a hit whose metadata file_id is the document.
C3_DeleteRemovesChunksAndVectors ==
    \A f \in DOMAIN deleted :
        /\ ChunksOf(f) = {}
        /\ \A v \in VectorsOf(deleted[f]) : v.metadata.file_id # f
        /\ \A query \in Queries, k \in SearchKs :
            \A res \in search_documents(deleted[f], query, k) :
                \A i \in 1..Len(res) : res[i].metadata.file_id # f

\* C4: once upload_file has returned with status completed for a text
\* file that fits in one chunk, the context block that generate_response
\* builds for the uploading user contains the uploaded text verbatim.
C4_UploadedTextInContext ==
    \A f \in DOMAIN files :
        ( /\ f \notin InFlightFiles
          /\ files[f].processing_status = "completed"
          /\ files[f].file_type = "text"
          /\ f \in DOMAIN disk
          /\ Len(disk[f].content) <= DefaultChunkSize )
        => \A query \in Queries, file_ids \in FileIdArgs :
                \A context \in generate_context(files[f].user_id, query, file_ids) :
                    Contains(context, disk[f].content)

\* C5: search_documents(u, q, k) returns only chunks that were added under
\* user u's namespace, never a chunk added for another user, also when
\* both users' chunks carry the same external id and text.
C5_NamespaceIsolation ==
    \A u \in Users, query \in Queries, k \in SearchKs :
        \A res \in search_documents(u, query, k) :
            \A i \in 1..Len(res) : res[i].added_for = u

C5_Witness ==
    \E u, v \in Users :
        /\ u # v
        /\ \E x \in VectorsOf(u), y \in VectorsOf(v) :
            /\ x.page_content = y.page_content
            /\ x.metadata = y.metadata
            /\ x.added_for = u /\ y.added_for = v
        /\ \E query \in Queries : \E res \in search_documents(u, query, 1) : Len(res) = 1

\* What a step does to the processing_status of file f: <<before, after>>.
StatusStep(f) == <<files[f].processing_status, files'[f].processing_status>>

\* C6 as claimed: a Document is persisted as pending, is moved to
\* processing before extraction starts, and reaches completed or failed
\* only from processing.
C6_StatusMachineWithProcessing ==
    [][\A f \in DOMAIN files' :
        IF f \in DOMAIN files
        THEN \/ files'[f].processing_status = files[f].processing_status
             \/ StatusStep(f) \in {<<"pending", "processing">>,
                                   <<"processing", "completed">>,
                                   <<"processing", "failed">>}
        ELSE files'[f].processing_status = "pending"]_vars

\* C6 as amended: a Document is persisted as pending and its status changes
\* only from pending to completed or from pending to failed; there is no
\* processing status in between.
C6_StatusMachine ==
    [][\A f \in DOMAIN files' :
        IF f \in DOMAIN files
        THEN \/ files'[f].processing_status = files[f].processing_status
             \/ StatusStep(f) \in {<<"pending", "completed">>, <<"pending", "failed">>}
        ELSE files'[f].processing_status = "pending"]_vars

C6_Witness ==
    \E f \in DOMAIN files :
        /\ f \notin InFlightFiles
        /\ files[f].processing_status = "failed"
        /\ ~files[f].is_processed

\* C7: every upload_file call that has persisted the Document record ends
\* with the Document completed or failed: no Document whose upload is not
\* in flight any more is left pending.
C7_UploadEndsCompletedOrFailed ==
    \A f \in DOMAIN files :
        f \notin InFlightFiles => files[f].processing_status \in {"completed", "failed"}

\* The uploads that upload_file has answered with the Document record: the
\* File row still existed at the commit of line 62.
ReturnedFiles == {f \in DOMAIN returned : returned[f].code = 200}

\* C11: an upload of a plain-text file whose text has at most chunk_size
\* characters returns the Document as completed, and as long as the Document
\* exists it has exactly one Chunk row, with chunk_index 0 and the full text
\* as content.
C11_ShortTextOneChunkRow ==
    \A f \in ReturnedFiles :
        ( /\ returned[f].record.file_type = "text"
          /\ f \in DOMAIN files
          /\ f \in DOMAIN disk
          /\ disk[f].readable
          /\ Len(disk[f].content) <= DefaultChunkSize )
        => /\ returned[f].record.processing_status = "completed"
           /\ returned[f].record.is_processed
           /\ files[f].processing_status = "completed"
           /\ Cardinality(ChunksOf(f)) = 1
           /\ \A r \in ChunksOf(f) : r.chunk_index = 0 /\ r.content = disk[f].content

C11_Witness ==
    \E f \in ReturnedFiles :
        /\ f \in DOMAIN files
        /\ files[f].file_type = "text"
        /\ disk[f].content = ShortText
        /\ \E r \in ChunksOf(f) : r.content = ShortText

\* C12: delete_file called by a user who did not upload the document, or
\* for an id that no Document has, answers 404 and changes nothing: the File
\* rows, the DocumentChunk rows, the stored files and every vector are as
\* before.
C12_ForeignDeleteIsNotFound ==
    \A u \in Users, f \in 1..MaxFiles :
        (f \notin DOMAIN files \/ uploader[f] # u) =>
            /\ delete_file(u, f).code = 404
            /\ delete_file(u, f).files = files
            /\ delete_file(u, f).rows = rows
            /\ delete_file(u, f).disk = disk
            /\ delete_file(u, f).store = store

C12_Witness ==
    \E f \in DOMAIN files : \E u \in Users :
        /\ uploader[f] # u
        /\ ChunksOf(f) # {}
        /\ f \in DOMAIN disk
        /\ VectorsOf(uploader[f]) # {}
        /\ delete_file(u, f).code = 404

\* C13: list_files(u) answers only Documents that u uploaded, and
\* get_file(u, id) answers the Document exactly when it exists and u
\* uploaded it, and 404 otherwise.
C13_ListAndGetOwnFilesOnly ==
    \A u \in Users :
        /\ \A skip \in Skips, limit \in Limits :
            \A res \in list_files(u, skip, limit) :
                \A i \in 1..Len(res.files) :
                    /\ res.files[i].id \in DOMAIN files
                    /\ uploader[res.files[i].id] = u
        /\ \A f \in 1..MaxFiles :
            IF f \in DOMAIN files /\ uploader[f] = u
            THEN get_file(u, f).code = 200 /\ get_file(u, f).file[1].id = f
            ELSE get_file(u, f).code = 404

C13_Witness ==
    \E f \in DOMAIN files : \E u \in Users :
        /\ uploader[f] # u
        /\ f \in DOMAIN deleted \/ f \in DOMAIN returned
        /\ get_file(u, f).code = 404
        /\ get_file(uploader[f], f).code = 200
        /\ \E res \in list_files(uploader[f], 0, 1) : Len(res.files) = 1
        /\ \E res \in list_files(u, 0, 1) : Len(res.files) = 0

\* C14: search_documents with k <= 0 fails with InvalidArgument before any
\* side effect: the Chroma directory is as before, the user's collection
\* neither opened nor created.
C14_BadKRejectedBeforeSideEffect ==
    \A u \in Users, query \in Queries, k \in BadKs :
        \A o \in SearchOutcomes(u, query, k) :
            o.error = "InvalidArgument" /\ o.store = store

C18_EmptyNamespaceStillAnswers ==
    \A u \in Users, query \in Queries, file_ids \in FileIdArgs, env \in Backends :
        (VectorsOf(u) = {} /\ env.search_ok /\ env.llm_ok) =>
            /\ generate_response(u, query, file_ids, env) # {}
            /\ \A r \in generate_response(u, query, file_ids, env) :
                /\ ~r.raised
                /\ Contains(r.prompt,
                        <<"Context: ", "\n\nQuestion: ">> \o query \o <<"\n\nAnswer:">>)
                /\ r.content = env.content

C18_Witness ==
    \E u \in Users :
        /\ get_user_vector_store(u) \in DOMAIN store
        /\ VectorsOf(u) = {}
        /\ \E v \in Users : VectorsOf(v) # {}

\* C16: when extraction or chunking raises in an upload whose Document
\* still exists, upload_file answers 200 with the Document record, the
\* record is failed with is_processed false, it is the row that is stored,
\* and no chunk row is written.
C16_ExtractionFailureMarksFailed ==
    \A req \in inflight :
        ( /\ req.file \in DOMAIN files
          /\ \/ ~extract_text(req.file, req.file_type).ok
             \/ chunk_text(extract_text(req.file, req.file_type).text,
                           DefaultChunkSize, DefaultOverlap).pc # "done" )
        => /\ UploadResult(req).code = 200
           /\ UploadResult(req).record.processing_status = "failed"
           /\ ~UploadResult(req).record.is_processed
           /\ UploadResult(req).files[req.file] = UploadResult(req).record
           /\ UploadResult(req).rows = rows

C16_Witness ==
    \E f \in ReturnedFiles :
        /\ returned[f].outcome = "raise"
        /\ f \in DOMAIN files
        /\ files[f].processing_status = "failed"
        /\ f \in DOMAIN disk
        /\ ~disk[f].readable
        /\ ChunksOf(f) = {}

\* The external id of the chunk a vector was made from.
ExternalId(v) == <<ToString(v.metadata.file_id), "_", ToString(v.metadata.chunk_index)>>

\* C23: every vector that add_documents_to_vector_store writes for a chunk
\* is stored under the id "{document_id}_{chunk_index}", the id written to
\* the chunk's embedding_id and derived by delete_file_from_vector_store.
C23_VectorStoredUnderExternalId ==
    \A u \in Users : \A v \in VectorsOf(u) :
        /\ v.id = ExternalId(v)
        /\ \A r \in rows : r.id = v.metadata.chunk_id => v.id \in {r.embedding_id} \cap IdsToDelete(r.file_id)

\* C24: however often add_documents_to_vector_store has run for a user and
\* a document, the user's namespace holds exactly one vector per chunk of
\* the document.
C24_IndexingIdempotent ==
    \A u \in Users : \A v \in VectorsOf(u) :
        Cardinality(CopiesOf(VectorsOf(u), v.metadata.chunk_id)) = 1

\* Two vectors of one document handed to the index in the same call.
SameBatch(v, w) ==
    /\ v.metadata.file_id = w.metadata.file_id
    /\ v.id[4] = w.id[4]

\* C27: within one document the chunks are handed to the vector index in
\* increasing chunk_index order.
C27_IndexedInChunkOrder ==
    \A u \in Users : \A v, w \in VectorsOf(u) :
        (SameBatch(v, w) /\ v.metadata.chunk_index < w.metadata.chunk_index)
            => v.batch_index < w.batch_index

C25_VectorsDeletedBeforeRecord ==
    /\ \A u \in Users, f \in 1..MaxFiles :
        (delete_file(u, f).code = 200 /\ ChunksOf(f) # {}) =>
            IdsToDelete(f) \in delete_file(u, f).index_deletes
    /\ \A f \in DOMAIN deleted :
        \A u \in Users : \A v \in VectorsOf(u) : v.metadata.file_id # f

\* C26: delete_file called again by the uploader after an earlier call was
\* cut short at any point does not fail on a stored file that is already
\* gone: it answers 200 as long as the record exists (404 once the record
\* itself is gone) and leaves what one uninterrupted deletion leaves: no
\* record, no chunk row and no stored file of the document, everything else
\* as it was.
C26_DeleteSafeToRetry ==
    \A f \in DOMAIN uploader :
        LET r == delete_file(uploader[f], f)
        IN  /\ r.code = (IF f \in DOMAIN files THEN 200 ELSE 404)
            /\ f \notin DOMAIN r.files
            /\ f \notin DOMAIN r.disk
            /\ \A row \in r.rows : row.file_id # f
            /\ \A g \in DOMAIN files \ {f} :
                g \in DOMAIN r.files /\ r.files[g] = files[g]
            /\ \A g \in DOMAIN disk \ {f} :
                g \in DOMAIN r.disk /\ r.disk[g] = disk[g]
            /\ {row \in rows : row.file_id # f} \subseteq r.rows
            /\ r.store = store

C26_Witness ==
    \E f \in DOMAIN files :
        /\ f \notin DOMAIN disk
        /\ ChunksOf(f) # {}
        /\ delete_file(uploader[f], f).code = 200

---------------------------------------------------------------------------
\* Claims about the chat endpoint, checked under SpecChat.

\* C15: when the search or the LM call inside generate_response fails
\* during a chat request, the request fails and the Conversation and
\* Message rows after it are the rows before it.
C15_FailedChatPersistsNothing ==
    \A u \in Users, req \in ChatRequests, env \in Backends :
        (~env.search_ok \/ ~env.llm_ok) =>
            \A r \in chat(u, req, env) :
                /\ r.code # 200
                /\ r.conversations = conversations
                /\ r.messages = messages

\* The texts ts laid out one after the other in c, a blank line (two
\* newlines) between neighbours and nothing else.
RECURSIVE Offset(_, _)
Offset(ts, i) == IF i = 1 THEN 0 ELSE Offset(ts, i - 1) + Len(ts[i - 1]) + 2

IsBlockOf(c, ts) ==
    /\ Len(c) = (IF Len(ts) = 0 THEN 0 ELSE Offset(ts, Len(ts)) + Len(ts[Len(ts)]))
    /\ \A i \in 1..Len(ts) :
        /\ SubSeq(c, Offset(ts, i) + 1, Offset(ts, i) + Len(ts[i])) = ts[i]
        /\ i > 1 => SubSeq(c, Offset(ts, i) - 1, Offset(ts, i)) = <<"\n", "\n">>

\* C29: every prompt generate_response hands to the LM holds, after
\* "Context: ", the texts of one result list of search_documents(user_id,
\* query, 5): the 5 nearest vectors of the user's collection (all of them
\* when it holds fewer), in the order of the ranking, a double newline
\* between neighbours; the query follows verbatim as the question; and when
\* the LM answers, its text is what generate_response returns.
C29_ContextIsTopFiveJoined ==
    \A u \in Users, query \in Queries, file_ids \in FileIdArgs, env \in Backends :
        env.search_ok =>
            LET results == search_documents(u, query, 5)
                answers == generate_response(u, query, file_ids, env)
            IN
            /\ answers # {}
            /\ \A r \in answers :
                /\ \E res \in results :
                    /\ Len(res) <= 5
                    /\ Len(res) = Min(5, Cardinality(VectorsOf(u)))
                    /\ \A i \in 1..Len(res) : res[i].rank = i
                    /\ LET c == SubSeq(r.prompt, 5, Len(r.prompt) - Len(query) - 2)
                       IN  /\ IsBlockOf(c, [i \in 1..Len(res) |-> res[i].content])
                           /\ r.prompt = SubSeq(r.prompt, 1, 3) \o <<"Context: ">> \o c
                                \o <<"\n\nQuestion: ">> \o query \o <<"\n\nAnswer:">>
                /\ env.llm_ok => (~r.raised /\ r.content = env.content)

C29_Witness ==
    \E u \in Users :
        /\ Cardinality(VectorsOf(u)) > 5
        /\ \E v, w \in VectorsOf(u) : v.page_content # w.page_content

\* C30: for one user, one query and one state of the index,
\* generate_response hands the LM the same prompts whatever file_ids is, and
\* the text of any vector of the user's collection can stand in the context
\* of a call whose file_ids does not name the vector's document.
C30_FileIdsDoNotScopeRetrieval ==
    \A u \in Users, query \in Queries, env \in Backends :
        /\ \A ids1, ids2 \in FileIdArgs :
            generate_response(u, query, ids1, env) = generate_response(u, query, ids2, env)
        /\ \A file_ids \in FileIdArgs, v \in VectorsOf(u) :
            ( /\ env.search_ok
              /\ file_ids.given
              /\ \A j \in 1..Len(file_ids.ids) : file_ids.ids[j] # v.metadata.file_id
              /\ v.page_content # <<>> ) =>
                \E r \in generate_response(u, query, file_ids, env) :
                    Contains(r.prompt, <<"Context: ">> \o v.page_content)

C30_Witness ==
    \E u \in Users, file_ids \in FileIdArgs : \E v \in VectorsOf(u) :
        /\ file_ids.given
        /\ Len(file_ids.ids) = 1
        /\ file_ids.ids[1] # v.metadata.file_id
        /\ v.page_content # <<>>
        /\ v.metadata.file_id \in DOMAIN files

====
